---- MODULE Spec2Model ----
(***************************************************************************)
(* Model of utils.py: the model invokers (completion and chat), the        *)
(* multi-model fan-out, the template variable extractor and validator,     *)
(* the judge score extractor and the LLM-judge comparator.                 *)
(*                                                                         *)
(* Python strings are sequences of one-character strings.  Floats are      *)
(* exact rationals <<numerator, denominator>> in lowest terms.  A call's   *)
(* outcome is a record [kind |-> "return" | "raise", ...].                 *)
(***************************************************************************)
EXTENDS Integers, Sequences, FiniteSets, TLC

VARIABLES
    invoker,     \* one call of test_prompt_with_model / test_prompt_with_chat_model
    fanout,      \* one call of test_multiple_models and its gathered tasks
    judge,       \* one call of _extract_judge_score
    comparator,  \* one call of compare_strings_with_llm_judge
    validator    \* one call of validate_variables_with_template

vars == <<invoker, fanout, judge, comparator, validator>>

(***************************************************************************)
(* Bounds of the model.                                                    *)
(***************************************************************************)
MaxAnswerLen == 5
MaxPairs == 3
MaxBody == 2

(***************************************************************************)
(* Python values and exceptions.                                           *)
(***************************************************************************)
Idle == [pc |-> "idle"]

Return(v) == [kind |-> "return", val |-> v]

Raise(cls, text) == [kind |-> "raise", exc |-> cls, text |-> text]

NoOutcome == [kind |-> "none"]

\* The classes an exception belongs to (itself and its bases).
Bases(cls) ==
    CASE cls = "JSONDecodeError" -> {"JSONDecodeError", "ValueError", "Exception"}
      [] cls = "ValueError" -> {"ValueError", "Exception"}
      [] cls = "KeyError" -> {"KeyError", "LookupError", "Exception"}
      [] cls = "IndexError" -> {"IndexError", "LookupError", "Exception"}
      [] cls = "TypeError" -> {"TypeError", "Exception"}
      [] cls = "ClientConnectorError" -> {"ClientConnectorError", "ClientError", "Exception"}
      [] cls = "TimeoutError" -> {"TimeoutError", "Exception"}
      [] cls = "TemplateSyntaxError" -> {"TemplateSyntaxError", "Exception"}
      [] OTHER -> {cls, "Exception"}

\* `except handler:` catches the outcome o.
Catches(handler, o) == o.kind = "raise" /\ handler \in Bases(o.exc)

(***************************************************************************)
(* Strings.                                                                *)
(***************************************************************************)
Digits == {"0", "1", "2", "3", "4", "5", "6", "7", "8", "9"}

DigitVal(c) ==
    CASE c = "0" -> 0 [] c = "1" -> 1 [] c = "2" -> 2 [] c = "3" -> 3
      [] c = "4" -> 4 [] c = "5" -> 5 [] c = "6" -> 6 [] c = "7" -> 7
      [] c = "8" -> 8 [] c = "9" -> 9

Str(s) == [type |-> "str", s |-> s]

None == [type |-> "NoneType", s |-> <<>>]

\* The sequences over S of length at most n.
RECURSIVE SeqsUpTo(_, _)
SeqsUpTo(S, n) ==
    IF n = 0 THEN {<<>>}
    ELSE LET shorter == SeqsUpTo(S, n - 1)
         IN shorter \cup {Append(s, c) : s \in {x \in shorter : Len(x) = n - 1}, c \in S}

\* sep occurs in s at index i.
OccursAt(s, sep, i) ==
    /\ i + Len(sep) - 1 <= Len(s)
    /\ \A k \in 1..Len(sep) : s[i + k - 1] = sep[k]

\* str.find from index i (1-based); 0 when absent.
RECURSIVE FindFrom(_, _, _)
FindFrom(s, sep, i) ==
    IF i + Len(sep) - 1 > Len(s) THEN 0
    ELSE IF OccursAt(s, sep, i) THEN i
    ELSE FindFrom(s, sep, i + 1)

\* `sep in s`
Contains(s, sep) == FindFrom(s, sep, 1) # 0

\* s.split(sep) for a non-empty sep: the pieces between the non-overlapping
\* occurrences of sep, scanning from the left.
RECURSIVE StrSplit(_, _)
StrSplit(s, sep) ==
    LET p == FindFrom(s, sep, 1)
    IN IF p = 0 THEN <<s>>
       ELSE <<SubSeq(s, 1, p - 1)>> \o StrSplit(SubSeq(s, p + Len(sep), Len(s)), sep)

\* The last index of the maximal run of digits that starts at i.
RECURSIVE DigitRunEnd(_, _)
DigitRunEnd(s, i) ==
    IF i < Len(s) /\ s[i + 1] \in Digits THEN DigitRunEnd(s, i + 1) ELSE i

\* The last index of the match of \d+(?:\.\d+)? that starts at the digit s[i].
MatchEnd(s, i) ==
    LET e == DigitRunEnd(s, i)
    IN IF e + 2 <= Len(s) /\ s[e + 1] = "." /\ s[e + 2] \in Digits
       THEN DigitRunEnd(s, e + 2)
       ELSE e

\* re.findall(r"\d+(?:\.\d+)?", s) from index i: the non-overlapping matches,
\* leftmost first.
RECURSIVE FindAllFrom(_, _)
FindAllFrom(s, i) ==
    IF i > Len(s) THEN <<>>
    ELSE IF s[i] \in Digits
         THEN LET e == MatchEnd(s, i)
              IN <<SubSeq(s, i, e)>> \o FindAllFrom(s, e + 1)
         ELSE FindAllFrom(s, i + 1)

(***************************************************************************)
(* Floats as exact rationals.                                              *)
(***************************************************************************)
RECURSIVE GCD(_, _)
GCD(a, b) == IF b = 0 THEN a ELSE GCD(b, a % b)

Rat(n, d) == LET g == GCD(n, d) IN <<n \div g, d \div g>>

RatLe(x, y) == x[1] * y[2] <= y[1] * x[2]

RatMin(x, y) == IF RatLe(x, y) THEN x ELSE y

RatMax(x, y) == IF RatLe(x, y) THEN y ELSE x

RatDiv(x, k) == Rat(x[1], x[2] * k)

Zero == Rat(0, 1)

One == Rat(1, 1)

RECURSIVE Pow10(_)
Pow10(k) == IF k = 0 THEN 1 ELSE 10 * Pow10(k - 1)

\* The value of a digit string read as a decimal integer.
RECURSIVE DecVal(_)
DecVal(ds) ==
    IF ds = <<>> THEN 0
    ELSE DecVal(SubSeq(ds, 1, Len(ds) - 1)) * 10 + DigitVal(ds[Len(ds)])

\* float(tok) for a match of \d+(?:\.\d+)?
\* (read exactly; the division by 4 that follows is exact in binary floating
\* point, and the comparisons with 0.0 and 1.0 do not round)
Float(tok) ==
    LET dot == FindFrom(tok, <<".">>, 1)
    IN IF dot = 0 THEN Rat(DecVal(tok), 1)
       ELSE LET frac == SubSeq(tok, dot + 1, Len(tok))
            IN Rat(DecVal(SubSeq(tok, 1, dot - 1) \o frac), Pow10(Len(frac)))

(***************************************************************************)
(* The HTTP endpoint, as the invokers see it: the POST fails with an        *)
(* exception, or it delivers a response body.                              *)
(***************************************************************************)
CONTEXT_LENGTH == 10000

CompletionOptions ==
    [num_ctx |-> CONTEXT_LENGTH, temperature |-> <<1, 10>>, top_p |-> <<7, 10>>, top_k |-> 20]

ChatOptions ==
    [num_ctx |-> CONTEXT_LENGTH, temperature |-> <<3, 10>>, top_p |-> <<9, 10>>, top_k |-> 40]

\* "Cannot connect to host localhost:11434 ssl:default [...]", abbreviated.
ConnectText == <<"h", "o", "s", "t", ":", "8", "0">>

\* "Expecting value: line 1 column 1 (char 0)", abbreviated.
JsonDecodeText == <<"l", "i", "n", "e", " ", "1">>

\* "list indices must be integers or slices, not str", abbreviated.
IndexTypeText == <<"l", "i", "s", "t">>

\* str(KeyError(key))
KeyErrorText(key) == <<"'", key, "'">>

\* What session.post / response.text() can raise.
NetErrors ==
    { Raise("ClientConnectorError", ConnectText),
      Raise("ClientConnectorError", <<"d", "n", "s">>),
      Raise("TimeoutError", <<>>) }

Dict == [type |-> "dict", s |-> <<>>]

\* The response bodies: text that is no JSON, a JSON array, and JSON objects
\* with some of the fields.
Bodies ==
    { [kind |-> "malformed"],
      [kind |-> "array"],
      [kind |-> "object", fields |-> [error |-> Str(<<"n", "o">>)]],
      [kind |-> "object", fields |-> [response |-> Str(<<"o", "k">>)]],
      [kind |-> "object", fields |-> [response |-> Str(<<"E", "T", ":", "3">>)]],
      [kind |-> "object", fields |-> [message |-> Dict]],
      [kind |-> "object", fields |-> [response |-> Str(<<"4">>), message |-> Dict]] }

\* json.loads(result)
JsonLoads(body) ==
    IF body.kind = "malformed" THEN Raise("JSONDecodeError", JsonDecodeText)
    ELSE Return(body)

\* response[key]
GetItem(parsed, key) ==
    IF parsed.kind # "object" THEN Raise("TypeError", IndexTypeText)
    ELSE IF key \in DOMAIN parsed.fields THEN Return(parsed.fields[key])
    ELSE Raise("KeyError", KeyErrorText(key))

ErrorPrefix == <<"E", "r", "r", "o", "r", ":", " ">>

GeneratePath == <<"/", "g">>

ChatPath == <<"/", "c">>

\* s.replace(old, new) for a non-empty old
RECURSIVE StrReplace(_, _, _)
StrReplace(s, old, new) ==
    LET p == FindFrom(s, old, 1)
    IN IF p = 0 THEN s
       ELSE SubSeq(s, 1, p - 1) \o new
            \o StrReplace(SubSeq(s, p + Len(old), Len(s)), old, new)

(***************************************************************************)
(* test_prompt_with_model and test_prompt_with_chat_model                  *)
(***************************************************************************)
\* The field of the body each variant returns (lines 25 and 67).
ResultField(variant) == IF variant = "chat" THEN "message" ELSE "response"

\* Lines 14-22 and 52-64: the request a variant posts.
Request(variant, url, input, model) ==
    IF variant = "chat"
    THEN [url |-> StrReplace(url, GeneratePath, ChatPath),
          json |-> [messages |-> input, model |-> model, stream |-> FALSE,
                    options |-> ChatOptions]]
    ELSE [url |-> url,
          json |-> [prompt |-> input, model |-> model, stream |-> FALSE,
                    options |-> CompletionOptions]]

\* Lines 14-25 and 56-67: the try block, given what the POST did (net).
TryBody(net, field) ==
    IF net.kind = "raise" THEN net
    ELSE LET parsed == JsonLoads(net.val)
         IN IF parsed.kind = "raise" THEN parsed
            ELSE GetItem(parsed.val, field)

InvokerResultUncaught(net, field) == TryBody(net, field)

InvokerResultNarrowCatch(net, field) ==
    LET o == TryBody(net, field)
    IN IF Catches("ClientError", o) THEN Return(Str(ErrorPrefix \o o.text)) ELSE o

\* Lines 13-27 and 55-69: the try block and its handler.
InvokerResult(net, field) ==
    LET o == TryBody(net, field)
    IN IF Catches("Exception", o) THEN Return(Str(ErrorPrefix \o o.text)) ELSE o

Urls == { <<"h", "/", "g">>, <<"h", "/", "c">>, <<"h">> }

Models == {"m1", "m2", "m3"}

Prompts == { <<"p">>, <<"q", "2">> }

InvokerInit ==
    \E variant \in {"completion", "chat"}, url \in Urls, input \in Prompts, model \in Models :
        invoker = [pc |-> "start", variant |-> variant, url |-> url, input |-> input,
                   model |-> model, posts |-> <<>>, net |-> NoOutcome,
                   outcome |-> NoOutcome]

\* session.post(...) is entered: the request is issued and the call awaits it.
InvokerPost ==
    /\ invoker.pc = "start"
    /\ invoker' = [invoker EXCEPT
           !.pc = "awaiting",
           !.posts = Append(@, Request(invoker.variant, invoker.url, invoker.input,
                                       invoker.model))]
    /\ UNCHANGED <<fanout, judge, comparator, validator>>

\* The POST or the read of the body raises: the handler returns the sentinel.
InvokerPostFails ==
    /\ invoker.pc = "awaiting"
    /\ \E e \in NetErrors :
           invoker' = [invoker EXCEPT
               !.pc = "done", !.net = e,
               !.outcome = InvokerResult(e, ResultField(invoker.variant))]
    /\ UNCHANGED <<fanout, judge, comparator, validator>>

\* The body arrives: it is parsed and the field returned.
InvokerResponse ==
    /\ invoker.pc = "awaiting"
    /\ \E body \in Bodies :
           invoker' = [invoker EXCEPT
               !.pc = "done", !.net = Return(body),
               !.outcome = InvokerResult(Return(body), ResultField(invoker.variant))]
    /\ UNCHANGED <<fanout, judge, comparator, validator>>

InitInvoker ==
    /\ InvokerInit
    /\ fanout = Idle /\ judge = Idle /\ comparator = Idle /\ validator = Idle

NextInvoker == InvokerPost \/ InvokerPostFails \/ InvokerResponse

SpecInvoker == InitInvoker /\ [][NextInvoker]_vars

\* C2: a call of either invoker never raises; when every step succeeds it
\* returns the body's response field (message for chat); when the POST fails,
\* the body is no JSON or the field is missing it returns "Error: " followed by
\* the exception's text; exactly one POST is issued per call.
C2_SentinelNeverRaises ==
    /\ Len(invoker.posts) <= 1
    /\ invoker.pc \in {"awaiting", "done"} =>
          /\ Len(invoker.posts) = 1
          /\ invoker.posts[1].json.model = invoker.model
          /\ invoker.variant = "completion" =>
                /\ invoker.posts[1].url = invoker.url
                /\ invoker.posts[1].json.prompt = invoker.input
          /\ invoker.variant = "chat" => invoker.posts[1].json.messages = invoker.input
    /\ invoker.pc = "done" =>
          LET f == IF invoker.variant = "chat" THEN "message" ELSE "response"
              net == invoker.net
          IN /\ invoker.outcome.kind = "return"
             /\ net.kind = "raise" =>
                   invoker.outcome.val = Str(<<"E", "r", "r", "o", "r", ":", " ">> \o net.text)
             /\ (net.kind = "return" /\ net.val.kind = "malformed") =>
                   invoker.outcome.val
                       = Str(<<"E", "r", "r", "o", "r", ":", " ">> \o JsonDecodeText)
             /\ (net.kind = "return" /\ net.val.kind = "object"
                   /\ f \notin DOMAIN net.val.fields) =>
                   invoker.outcome.val
                       = Str(<<"E", "r", "r", "o", "r", ":", " ", "'", f, "'">>)
             /\ (net.kind = "return" /\ net.val.kind = "object"
                   /\ f \in DOMAIN net.val.fields) =>
                   invoker.outcome.val = net.val.fields[f]

C2_Witness ==
    /\ invoker.pc = "done"
    /\ invoker.variant = "chat"
    /\ invoker.net = Return([kind |-> "object", fields |-> [response |-> Str(<<"o", "k">>)]])
    /\ invoker.outcome = Return(Str(<<"E", "r", "r", "o", "r", ":", " ", "'", "message", "'">>))
    /\ Len(invoker.posts) = 1

(***************************************************************************)
(* test_multiple_models                                                    *)
(***************************************************************************)
Min(a, b) == IF a <= b THEN a ELSE b

ZipMisaligned(xs, ys) ==
    LET n == Min(Len(xs), Len(ys)) IN [i \in 1..n |-> <<xs[i], ys[n + 1 - i]>>]

\* zip(xs, ys): positional pairs, as many as the shorter sequence has.
Zip(xs, ys) == [i \in 1..Min(Len(xs), Len(ys)) |-> <<xs[i], ys[i]>>]

\* d[key] = val on a dict held as its entries in insertion order.
DictSet(d, key, val) ==
    IF \E j \in 1..Len(d) : d[j].key = key
    THEN [j \in 1..Len(d) |-> IF d[j].key = key THEN [key |-> key, val |-> val] ELSE d[j]]
    ELSE Append(d, [key |-> key, val |-> val])

DictSetKeepFirst(d, key, val) ==
    IF \E j \in 1..Len(d) : d[j].key = key THEN d
    ELSE Append(d, [key |-> key, val |-> val])

RECURSIVE DictKeepFirst(_)
DictKeepFirst(pairs) ==
    IF pairs = <<>> THEN <<>>
    ELSE LET last == pairs[Len(pairs)]
         IN DictSetKeepFirst(DictKeepFirst(SubSeq(pairs, 1, Len(pairs) - 1)), last[1], last[2])

\* dict(pairs): the pairs are inserted in order, a later one overwriting an
\* earlier one with the same key.
RECURSIVE DictOf(_)
DictOf(pairs) ==
    IF pairs = <<>> THEN <<>>
    ELSE LET last == pairs[Len(pairs)]
         IN DictSet(DictOf(SubSeq(pairs, 1, Len(pairs) - 1)), last[1], last[2])

\* The endpoint's reply to a request it serves: it names the url and the model
\* of the request, so that a result shows which invocation it came from.
ServerBody(req) ==
    [kind |-> "object", fields |-> [response |-> Str(req.url \o <<req.json.model>>)]]

\* What an invocation of the fan-out can meet: the POST raises, or the server's
\* reply comes back.
FanErrors == { Raise("ClientConnectorError", ConnectText) }

FanBodies(req) == { ServerBody(req) }

\* asyncio.gather(*tasks): pending until every task is done, unless a task has
\* raised, which gather hands on at once.
Gather(tasks) ==
    IF \E i \in 1..Len(tasks) : tasks[i].pc = "done" /\ tasks[i].result.kind = "raise"
    THEN {tasks[i].result : i \in {j \in 1..Len(tasks) :
                                     tasks[j].pc = "done" /\ tasks[j].result.kind = "raise"}}
    ELSE IF \A i \in 1..Len(tasks) : tasks[i].pc = "done"
    THEN {Return([i \in 1..Len(tasks) |-> tasks[i].result.val])}
    ELSE {}

FanUrls == { <<"a">>, <<"b">> }

FanOutInit ==
    \E urls \in SeqsUpTo(FanUrls, MaxPairs), models \in SeqsUpTo(Models, MaxPairs) :
        fanout = [pc |-> "start", urls |-> urls, prompt |-> <<"p">>, models |-> models,
                  tasks |-> <<>>, first |-> 0, outcome |-> NoOutcome]

\* Lines 31-33 and the call of gather: one coroutine per zipped pair, each
\* wrapped in a task.
FanOutStart ==
    /\ fanout.pc = "start"
    /\ LET pairs == Zip(fanout.urls, fanout.models)
       IN fanout' = [fanout EXCEPT
              !.pc = "gathering",
              !.tasks = [i \in 1..Len(pairs) |->
                            [pc |-> "created", url |-> pairs[i][1], model |-> pairs[i][2],
                             posted |-> <<>>, net |-> NoOutcome, result |-> NoOutcome]]]
    /\ UNCHANGED <<invoker, judge, comparator, validator>>

\* Task i enters session.post(...).
TaskPost ==
    /\ fanout.pc = "gathering"
    /\ \E i \in 1..Len(fanout.tasks) :
          /\ fanout.tasks[i].pc = "created"
          /\ fanout' = [fanout EXCEPT
                 !.tasks[i].pc = "awaiting",
                 !.tasks[i].posted =
                     Append(@, Request("completion", fanout.tasks[i].url, fanout.prompt,
                                       fanout.tasks[i].model))]
    /\ UNCHANGED <<invoker, judge, comparator, validator>>

\* Task i's POST raises.
TaskPostFails ==
    /\ fanout.pc = "gathering"
    /\ \E i \in 1..Len(fanout.tasks), e \in FanErrors :
          /\ fanout.tasks[i].pc = "awaiting"
          /\ fanout' = [fanout EXCEPT
                 !.tasks[i].pc = "done",
                 !.tasks[i].net = e,
                 !.tasks[i].result = InvokerResult(e, ResultField("completion")),
                 !.first = IF @ = 0 THEN i ELSE @]
    /\ UNCHANGED <<invoker, judge, comparator, validator>>

\* Task i's body arrives.
TaskResponse ==
    /\ fanout.pc = "gathering"
    /\ \E i \in 1..Len(fanout.tasks) :
          /\ fanout.tasks[i].pc = "awaiting"
          /\ \E body \in FanBodies(fanout.tasks[i].posted[1]) :
                fanout' = [fanout EXCEPT
                    !.tasks[i].pc = "done",
                    !.tasks[i].net = Return(body),
                    !.tasks[i].result = InvokerResult(Return(body), ResultField("completion")),
                    !.first = IF @ = 0 THEN i ELSE @]
    /\ UNCHANGED <<invoker, judge, comparator, validator>>

\* Lines 34-35: gather hands its result on and the mapping is built.
FanOutReturn ==
    /\ fanout.pc = "gathering"
    /\ \E g \in Gather(fanout.tasks) :
          fanout' = [fanout EXCEPT
              !.pc = "returned",
              !.outcome = IF g.kind = "raise" THEN g
                          ELSE Return(DictOf(Zip(fanout.models, g.val)))]
    /\ UNCHANGED <<invoker, judge, comparator, validator>>

InitFanOut ==
    /\ FanOutInit
    /\ invoker = Idle /\ judge = Idle /\ comparator = Idle /\ validator = Idle

NextFanOut == FanOutStart \/ TaskPost \/ TaskPostFails \/ TaskResponse \/ FanOutReturn

SpecFanOut == InitFanOut /\ [][NextFanOut]_vars

(***************************************************************************)
(* Claims about test_multiple_models.                                      *)
(***************************************************************************)
\* The number of (endpoint, model) pairs of the call.
NPairs ==
    IF Len(fanout.urls) <= Len(fanout.models) THEN Len(fanout.urls) ELSE Len(fanout.models)

\* The last paired position that carries model m.
LastPos(m) ==
    CHOOSE i \in 1..NPairs :
        fanout.models[i] = m /\ \A j \in (i + 1)..NPairs : fanout.models[j] # m

PairedModels == {fanout.models[i] : i \in 1..NPairs}

DistinctModels ==
    \A i, j \in 1..Len(fanout.models) : i # j => fanout.models[i] # fanout.models[j]

Entries(d, m) == {j \in 1..Len(d) : d[j].key = m}

DictGet(d, m) == d[CHOOSE j \in 1..Len(d) : d[j].key = m].val

BeginsWithError(v) ==
    /\ v.type = "str"
    /\ Len(v.s) >= 7
    /\ SubSeq(v.s, 1, 7) = <<"E", "r", "r", "o", "r", ":", " ">>

\* The network call of the invocation at position i failed.
Failed(i) == fanout.tasks[i].net.kind = "raise"

\* What the endpoint answers the pair at position i.
NormalResponse(i) == Str(fanout.urls[i] \o <<fanout.models[i]>>)

AllCompleted ==
    /\ Len(fanout.tasks) = NPairs
    /\ \A i \in 1..NPairs : fanout.tasks[i].pc = "done"

\* C1 as stated: the fan-out returns only after every invocation has completed,
\* raises nothing, and each failed invocation's model maps to a string that
\* begins with "Error: " while every other model maps to its normal response.
C1_FailedModelMapsToError ==
    fanout.pc = "returned" =>
        /\ AllCompleted
        /\ fanout.outcome.kind = "return"
        /\ \A i \in 1..NPairs :
              Failed(i) => BeginsWithError(DictGet(fanout.outcome.val, fanout.models[i]))
        /\ \A m \in PairedModels :
              (\A i \in 1..NPairs : fanout.models[i] = m => ~Failed(i)) =>
                  \E i \in 1..NPairs :
                      fanout.models[i] = m
                      /\ DictGet(fanout.outcome.val, m) = NormalResponse(i)

\* C1 amended: the fan-out returns only after every invocation has completed,
\* raises nothing, and each model maps to the outcome of the last invocation
\* issued for it: a string that begins with "Error: " when that invocation
\* failed, its normal response otherwise.
C1_LastInvocationDecides ==
    fanout.pc = "returned" =>
        /\ AllCompleted
        /\ fanout.outcome.kind = "return"
        /\ \A m \in PairedModels :
              LET i == LastPos(m)
                  v == DictGet(fanout.outcome.val, m)
              IN /\ Failed(i) => BeginsWithError(v)
                 /\ ~Failed(i) => v = NormalResponse(i)

C1_Witness ==
    /\ fanout.pc = "returned"
    /\ NPairs = 3
    /\ fanout.models = <<"m1", "m2", "m1">>
    /\ fanout.first = 1
    /\ Failed(1) /\ ~Failed(2) /\ Failed(3)
    /\ BeginsWithError(DictGet(fanout.outcome.val, "m1"))
    /\ DictGet(fanout.outcome.val, "m2") = NormalResponse(2)

\* C8: one invocation is issued per position, and a model carried at several
\* positions has exactly one entry in the returned mapping, whose value is the
\* result of the last pairing that carries it, whatever the order of completion.
C8_LastWriteWins ==
    fanout.pc = "returned" =>
        /\ fanout.outcome.kind = "return"
        /\ Len(fanout.tasks) = NPairs
        /\ \A i \in 1..NPairs :
              /\ Len(fanout.tasks[i].posted) = 1
              /\ fanout.tasks[i].posted[1].url = fanout.urls[i]
              /\ fanout.tasks[i].posted[1].json.model = fanout.models[i]
        /\ \A m \in PairedModels :
              /\ Cardinality(Entries(fanout.outcome.val, m)) = 1
              /\ DictGet(fanout.outcome.val, m) = fanout.tasks[LastPos(m)].result.val

C8_Witness ==
    /\ fanout.pc = "returned"
    /\ fanout.models = <<"m1", "m2", "m1">>
    /\ fanout.urls = << <<"a">>, <<"a">>, <<"b">> >>
    /\ fanout.first = 3
    /\ ~Failed(1) /\ ~Failed(3)
    /\ Len(fanout.outcome.val) = 2
    /\ DictGet(fanout.outcome.val, "m1") = Str(<<"b", "m1">>)

\* C9: with pairwise distinct models, exactly min(len(urls), len(models))
\* invocations are issued, the one at position i for (urls[i], models[i]); the
\* keys of the returned mapping are exactly the models at those positions, and
\* models[i] maps to the result of the invocation at position i, in every
\* interleaving.
C9_PositionalPairing ==
    DistinctModels =>
        /\ fanout.pc \in {"gathering", "returned"} =>
              /\ Len(fanout.tasks) = NPairs
              /\ \A i \in 1..NPairs :
                    /\ Len(fanout.tasks[i].posted) <= 1
                    /\ \A k \in 1..Len(fanout.tasks[i].posted) :
                          /\ fanout.tasks[i].posted[k].url = fanout.urls[i]
                          /\ fanout.tasks[i].posted[k].json.model = fanout.models[i]
                          /\ fanout.tasks[i].posted[k].json.prompt = fanout.prompt
        /\ fanout.pc = "returned" =>
              /\ fanout.outcome.kind = "return"
              /\ \A i \in 1..NPairs : Len(fanout.tasks[i].posted) = 1
              /\ Len(fanout.outcome.val) = NPairs
              /\ {fanout.outcome.val[j].key : j \in 1..Len(fanout.outcome.val)} = PairedModels
              /\ \A i \in 1..NPairs :
                    DictGet(fanout.outcome.val, fanout.models[i])
                        = IF Failed(i)
                          THEN Str(<<"E", "r", "r", "o", "r", ":", " ">>
                                   \o fanout.tasks[i].net.text)
                          ELSE NormalResponse(i)

C9_Witness ==
    /\ fanout.pc = "returned"
    /\ fanout.urls = << <<"a">>, <<"b">>, <<"a">> >>
    /\ fanout.models = <<"m2", "m1">>
    /\ fanout.first = 2
    /\ Len(fanout.tasks) = 2
    /\ Len(fanout.outcome.val) = 2
    /\ DictGet(fanout.outcome.val, "m2") = Str(<<"a", "m2">>)
    /\ DictGet(fanout.outcome.val, "m1") = Str(<<"b", "m1">>)

(***************************************************************************)
(* _extract_judge_score                                                    *)
(***************************************************************************)
DefaultMarker == <<"T", ":">>

\* Lines 110-113: the text the numbers are searched in.
RatingSegment(answer, split_str) ==
    IF answer.type # "str" THEN Raise("TypeError", <<>>)
    ELSE IF Contains(answer.s, split_str)
         THEN IF split_str = <<>> THEN Raise("ValueError", <<>>)
              ELSE Return(StrSplit(answer.s, split_str)[2])
         ELSE Return(answer.s)

\* Line 114
DigitGroups(rating) == FindAllFrom(rating, 1)

\* Line 115: float(digit_groups[0])
RawScore(digit_groups) ==
    IF digit_groups = <<>> THEN Raise("IndexError", <<>>)
    ELSE Return(Float(digit_groups[1]))

RescaleUnclamped(score) == IF score = Zero THEN score ELSE RatDiv(score, 4)

\* Lines 117-119
Rescale(score) ==
    IF score = Zero THEN score
    ELSE RatMax(Zero, RatMin(One, RatDiv(score, 4)))

\* Lines 110-119: the body of the try block.
ExtractBody(answer, split_str) ==
    LET seg == RatingSegment(answer, split_str)
    IN IF seg.kind = "raise" THEN seg
       ELSE LET raw == RawScore(DigitGroups(seg.val))
            IN IF raw.kind = "raise" THEN raw ELSE Return(Rescale(raw.val))

ExtractUncaught(answer, split_str) == ExtractBody(answer, split_str)

\* Lines 108-122
ExtractJudgeScore(answer, split_str) ==
    LET o == ExtractBody(answer, split_str)
    IN IF Catches("Exception", o) THEN Return(Zero) ELSE o

(***************************************************************************)
(* The judge score extractor as a state machine: Init draws the answer and *)
(* the marker, JudgeExtract runs the call.                                 *)
(***************************************************************************)
AnswerChars == {"T", ":", "0", "2", "."}

\* "Evaluation: good. Total rating: 4", "Total rating: 2.5", "Total rating: 10",
\* "no rating given" and the stub judge's answer, abbreviated.
ExampleAnswers ==
    { <<"E", "T", ":", "4">>, <<"T", ":", "2", ".", "5">>, <<"T", ":", "1", "0">>,
      <<"n", "o">>, <<"E", "T", ":", "3">> }

Answers == {Str(s) : s \in SeqsUpTo(AnswerChars, MaxAnswerLen) \cup ExampleAnswers} \cup {None}

Markers == {DefaultMarker, <<":">>, <<>>}

JudgeInit ==
    \E a \in Answers, m \in Markers :
        judge = [pc |-> "start", answer |-> a, split_str |-> m,
                 seg |-> NoOutcome, raw |-> NoOutcome, outcome |-> NoOutcome]

JudgeExtract ==
    /\ judge.pc = "start"
    /\ LET seg == RatingSegment(judge.answer, judge.split_str)
       IN judge' = [judge EXCEPT
              !.pc = "done",
              !.seg = seg,
              !.raw = IF seg.kind = "return" THEN RawScore(DigitGroups(seg.val))
                      ELSE NoOutcome,
              !.outcome = ExtractJudgeScore(judge.answer, judge.split_str)]
    /\ UNCHANGED <<invoker, fanout, comparator, validator>>

InitJudge ==
    /\ JudgeInit
    /\ invoker = Idle /\ fanout = Idle /\ comparator = Idle /\ validator = Idle

NextJudge == JudgeExtract

SpecJudge == InitJudge /\ [][NextJudge]_vars

(***************************************************************************)
(* Claims about _extract_judge_score.                                      *)
(***************************************************************************)
HasNoDigit(s) == \A i \in 1..Len(s) : s[i] \notin Digits

\* Everything after the first occurrence of the marker, or the whole answer.
AfterFirstMarker(s, m) ==
    LET p == FindFrom(s, m, 1)
    IN IF p = 0 THEN s ELSE SubSeq(s, p + Len(m), Len(s))

\* C3: for a string answer and a non-empty marker, the raw score is the value of
\* the first integer-or-decimal substring of the search window, the window being
\* everything after the marker's first occurrence (the whole answer when the
\* marker is absent).
C3_WindowAfterFirstMarker ==
    (judge.pc = "done" /\ judge.answer.type = "str" /\ judge.split_str # <<>>) =>
        LET window == AfterFirstMarker(judge.answer.s, judge.split_str)
            groups == FindAllFrom(window, 1)
        IN groups # <<>> => judge.raw = Return(Float(groups[1]))

\* C4: a recovered raw score r is returned as 0 when r = 0 and otherwise as r/4
\* clamped to [0, 1]; the result is in [0, 1] for every input; "Total rating: 4"
\* gives 1, "Total rating: 2.5" gives 5/8, "Total rating: 10" gives 1.
C4_RescaledAndClamped ==
    judge.pc = "done" =>
        /\ judge.outcome.kind = "return"
        /\ RatLe(<<0, 1>>, judge.outcome.val) /\ RatLe(judge.outcome.val, <<1, 1>>)
        /\ judge.raw.kind = "return" =>
              LET r == judge.raw.val
                  v == judge.outcome.val
              IN IF r[1] = 0 THEN v = <<0, 1>>
                 ELSE IF r[1] >= 4 * r[2] THEN v = <<1, 1>>
                 ELSE v[1] * r[2] * 4 = r[1] * v[2]
        /\ (judge.split_str = DefaultMarker /\ judge.answer = Str(<<"E", "T", ":", "4">>))
              => judge.outcome.val = <<1, 1>>
        /\ (judge.split_str = DefaultMarker /\ judge.answer = Str(<<"T", ":", "2", ".", "5">>))
              => judge.outcome.val = <<5, 8>>
        /\ (judge.split_str = DefaultMarker /\ judge.answer = Str(<<"T", ":", "1", "0">>))
              => judge.outcome.val = <<1, 1>>

C4_Witness ==
    /\ judge.pc = "done"
    /\ judge.split_str = DefaultMarker
    /\ judge.answer = Str(<<"T", ":", "1", "0">>)
    /\ judge.raw = Return(<<10, 1>>)
    /\ judge.outcome = Return(<<1, 1>>)

\* C5: the call never raises; when the search window holds no numeric substring,
\* or the extraction fails otherwise (an answer that is no string, an empty
\* marker), it returns 0.
C5_NeverRaisesZeroOnFailure ==
    judge.pc = "done" =>
        /\ judge.outcome.kind = "return"
        /\ judge.seg.kind = "raise" => judge.outcome.val = <<0, 1>>
        /\ (judge.seg.kind = "return" /\ HasNoDigit(judge.seg.val))
              => judge.outcome.val = <<0, 1>>
        /\ (judge.answer.type = "str" /\ HasNoDigit(judge.answer.s))
              => judge.outcome.val = <<0, 1>>

C5_Witness ==
    /\ judge.pc = "done"
    /\ judge.answer = Str(<<"n", "o">>)
    /\ judge.raw.kind = "raise"
    /\ judge.outcome = Return(<<0, 1>>)

(***************************************************************************)
(* compare_strings_with_llm_judge                                          *)
(***************************************************************************)
\* Lines 133-161: the judge prompt; the rubric and the closing lines are
\* abbreviated to one element each.
JudgePrompt(original_instruction, llm_output, expected_output) ==
    <<"rubric", "user_instruction: ">> \o original_instruction
    \o <<"system_answer: ">> \o llm_output
    \o <<"expected_answer: ">> \o expected_output
    \o <<"Feedback:::", "Evaluation: ">>

CompareFinishScoresOutput(called) ==
    IF called.kind = "raise"
    THEN IF Catches("ValueError", called) THEN Return(Zero) ELSE called
    ELSE ExtractJudgeScore(Str(comparator.llm_output), DefaultMarker)

\* Lines 162-169, from the return of the awaited call: the score of the
\* response, 0.0 for a ValueError, any other exception handed on.
CompareFinish(called) ==
    IF called.kind = "raise"
    THEN IF Catches("ValueError", called) THEN Return(Zero) ELSE called
    ELSE LET score == ExtractJudgeScore(called.val, DefaultMarker)
         IN IF Catches("ValueError", score) THEN Return(Zero) ELSE score

\* "Evaluation: fine\nTotal rating: 3", abbreviated.
StubAnswer == <<"E", "T", ":", "3">>

JudgeReplies == { <<"T", ":", "4">>, <<"T", ":", "1">>, <<"n", "o">> }

RaisedByFunc == { Raise("ValueError", <<"b", "a", "d">>), Raise("JSONDecodeError", JsonDecodeText),
                  Raise("RuntimeError", <<"7">>) }

Texts == { <<"x">>, <<"T", ":", "0">>, <<"9">> }

\* The injected functions: a stub with a fixed answer, a judge with varying
\* answers, a function that raises, and test_prompt_with_model itself.
Funcs == {"stub", "judge", "raiser", "test_prompt_with_model"}

ComparatorInit ==
    \E o \in Texts, e \in Texts, i \in Texts, f \in Funcs :
        comparator = [pc |-> "start", llm_output |-> o, expected_output |-> e,
                      original_instruction |-> i, test_prompt_func |-> f,
                      url |-> <<"h", "/", "g">>, model |-> "m1",
                      calls |-> <<>>, net |-> NoOutcome, called |-> NoOutcome,
                      outcome |-> NoOutcome]

\* Lines 133-163: the prompt is rendered and the injected function called.
CompareCall ==
    /\ comparator.pc = "start"
    /\ comparator' = [comparator EXCEPT
           !.pc = "awaiting",
           !.calls = Append(@, [url |-> comparator.url,
                                prompt |-> JudgePrompt(comparator.original_instruction,
                                                       comparator.llm_output,
                                                       comparator.expected_output),
                                model |-> comparator.model])]
    /\ UNCHANGED <<invoker, fanout, judge, validator>>

StubReturns ==
    /\ comparator.pc = "awaiting" /\ comparator.test_prompt_func = "stub"
    /\ comparator' = [comparator EXCEPT
           !.pc = "done", !.called = Return(Str(StubAnswer)),
           !.outcome = CompareFinish(Return(Str(StubAnswer)))]
    /\ UNCHANGED <<invoker, fanout, judge, validator>>

JudgeReturns ==
    /\ comparator.pc = "awaiting" /\ comparator.test_prompt_func = "judge"
    /\ \E r \in JudgeReplies :
          comparator' = [comparator EXCEPT
              !.pc = "done", !.called = Return(Str(r)),
              !.outcome = CompareFinish(Return(Str(r)))]
    /\ UNCHANGED <<invoker, fanout, judge, validator>>

FuncRaises ==
    /\ comparator.pc = "awaiting" /\ comparator.test_prompt_func = "raiser"
    /\ \E e \in RaisedByFunc :
          comparator' = [comparator EXCEPT
              !.pc = "done", !.called = e, !.outcome = CompareFinish(e)]
    /\ UNCHANGED <<invoker, fanout, judge, validator>>

\* The injected function is test_prompt_with_model: its POST fails or a body
\* arrives, and what it returns is scored.
InvokerReturns ==
    /\ comparator.pc = "awaiting" /\ comparator.test_prompt_func = "test_prompt_with_model"
    /\ \E net \in NetErrors \cup {Return(b) : b \in Bodies} :
          LET called == InvokerResult(net, ResultField("completion"))
          IN comparator' = [comparator EXCEPT
                 !.pc = "done", !.net = net, !.called = called,
                 !.outcome = CompareFinish(called)]
    /\ UNCHANGED <<invoker, fanout, judge, validator>>

InitComparator ==
    /\ ComparatorInit
    /\ invoker = Idle /\ fanout = Idle /\ judge = Idle /\ validator = Idle

NextComparator == CompareCall \/ StubReturns \/ JudgeReturns \/ FuncRaises \/ InvokerReturns

SpecComparator == InitComparator /\ [][NextComparator]_vars

\* C6: the injected function is called exactly once, with the rendered judge
\* prompt and the given model; the result is the extractor's score of its
\* response whatever the three texts are: 3/4 for the stub that answers
\* "Evaluation: fine\nTotal rating: 3".
C6_ScoreOfJudgeResponseOnly ==
    /\ Len(comparator.calls) <= 1
    /\ comparator.pc \in {"awaiting", "done"} =>
          /\ Len(comparator.calls) = 1
          /\ comparator.calls[1].url = comparator.url
          /\ comparator.calls[1].model = comparator.model
          /\ comparator.calls[1].prompt =
                <<"rubric", "user_instruction: ">> \o comparator.original_instruction
                \o <<"system_answer: ">> \o comparator.llm_output
                \o <<"expected_answer: ">> \o comparator.expected_output
                \o <<"Feedback:::", "Evaluation: ">>
    /\ (comparator.pc = "done" /\ comparator.test_prompt_func = "stub") =>
          comparator.outcome = Return(<<3, 4>>)
    /\ (comparator.pc = "done" /\ comparator.called = Return(Str(<<"T", ":", "1">>))) =>
          comparator.outcome = Return(<<1, 4>>)
    /\ (comparator.pc = "done" /\ comparator.called.kind = "return") =>
          comparator.outcome = ExtractJudgeScore(comparator.called.val, DefaultMarker)

C6_Witness ==
    /\ comparator.pc = "done"
    /\ comparator.test_prompt_func = "stub"
    /\ comparator.llm_output = <<"T", ":", "0">>
    /\ comparator.expected_output = <<"9">>
    /\ Len(comparator.calls) = 1
    /\ comparator.outcome = Return(<<3, 4>>)

\* C7: whenever the judge invocation fails, the injected function raising a
\* ValueError or test_prompt_with_model returning its "Error: ..." sentinel for
\* a failed POST, the comparator raises nothing and returns 0.
C7_ZeroOnJudgeFailure ==
    (/\ comparator.pc = "done"
     /\ \/ comparator.test_prompt_func = "raiser"
           /\ "ValueError" \in Bases(comparator.called.exc)
        \/ comparator.test_prompt_func = "test_prompt_with_model"
           /\ comparator.net.kind = "raise")
    => comparator.outcome = Return(<<0, 1>>)


(***************************************************************************)
(* get_template_variables and validate_variables_with_template             *)
(***************************************************************************)
\* The nodes env.parse builds, as far as the walk reads them: a type, a name
\* (of a Name node) and the child nodes.
NameNode(v) == [type |-> "Name", name |-> v, children |-> <<>>]

Node(type, children) == [type |-> type, name |-> "", children |-> children]

TemplateVars == {"a", "b"}

\* {{ a }}, {{ b }}, {{ 1 }}, {{ a.x }}, {{ b|upper }}, {{ a + b }}
Exprs ==
    {NameNode(v) : v \in TemplateVars}
    \cup { Node("Const", <<>>),
           Node("Getattr", <<NameNode("a")>>),
           Node("Filter", <<NameNode("b")>>),
           Node("Add", <<NameNode("a"), NameNode("b")>>) }

\* The statements of a template body: text, an output, a for loop over a.
Stmts ==
    {Node("Output", <<e>>) : e \in Exprs}
    \cup { Node("Output", <<Node("TemplateData", <<>>)>>),
           Node("For", <<NameNode("b"), NameNode("a"),
                         Node("Output", <<NameNode("b")>>)>>) }

\* The template strings: those jinja2 parses, with the tree it builds, and one
\* it rejects.
Templates ==
    {[valid |-> TRUE, ast |-> Node("Template", body)] : body \in SeqsUpTo(Stmts, MaxBody)}
    \cup {[valid |-> FALSE, ast |-> Node("Template", <<>>)]}

\* Line 75: env.parse(template_str)
Parse(template_str) ==
    IF template_str.valid THEN Return(template_str.ast)
    ELSE Raise("TemplateSyntaxError", <<>>)

\* Lines 78-82: visit_node, the names it adds to `variables`.
RECURSIVE VisitNode(_)
VisitNode(node) ==
    (IF node.type = "Name" THEN {node.name} ELSE {})
    \cup UNION {VisitNode(node.children[i]) : i \in 1..Len(node.children)}

\* Lines 72-85, up to the order of the returned list: the set `variables`.
GetTemplateVariables(ast) == VisitNode(ast)

\* The orders list(variables) can have.
ListsOf(S) ==
    {l \in [1..Cardinality(S) -> S] : \A i, j \in 1..Cardinality(S) : i # j => l[i] # l[j]}

OffendingIgnoresNone(values, template_var) ==
    \/ template_var \notin DOMAIN values
    \/ values[template_var] = Str(<<>>)

\* Lines 95-99: the test of one variable.
Offending(values, template_var) ==
    \/ template_var \notin DOMAIN values
    \/ values[template_var] = Str(<<>>)
    \/ values[template_var] = None

\* Lines 94-101: the loop over the variables in list order.
RECURSIVE ValidateLoop(_, _)
ValidateLoop(values, template_vars) ==
    IF template_vars = <<>> THEN <<TRUE, "">>
    ELSE IF Offending(values, template_vars[1]) THEN <<FALSE, template_vars[1]>>
    ELSE ValidateLoop(values, Tail(template_vars))

\* Lines 91-92: a string is decoded as JSON first.
DecodeValues(values) ==
    IF values.type = "str"
    THEN LET loaded == JsonLoads(values.body)
         IN IF loaded.kind = "raise" THEN loaded ELSE Return(loaded.val.fields)
    ELSE Return(values.map)

Int0 == [type |-> "int", s |-> <<>>]

ValueSet == { Str(<<>>), Str(<<"x">>), None, Int0 }

Maps == UNION {[keys -> ValueSet] : keys \in SUBSET TemplateVars}

ValuesInputs ==
    {[type |-> "dict", map |-> m, body |-> [kind |-> "none"]] : m \in Maps}
    \cup {[type |-> "str", map |-> <<>>, body |-> [kind |-> "object", fields |-> m]] : m \in Maps}
    \cup {[type |-> "str", map |-> <<>>, body |-> [kind |-> "malformed"]]}

ValidatorInit ==
    \E values \in ValuesInputs, template_str \in Templates :
        validator = [pc |-> "start", values |-> values, template_str |-> template_str,
                     template_vars |-> <<>>, outcome |-> NoOutcome]

\* Lines 91-92 raise: the JSON error reaches the caller.
ValidateDecodeFails ==
    /\ validator.pc = "start"
    /\ DecodeValues(validator.values).kind = "raise"
    /\ validator' = [validator EXCEPT
           !.pc = "done", !.outcome = DecodeValues(validator.values)]
    /\ UNCHANGED <<invoker, fanout, judge, comparator>>

\* Line 93 raises: the template does not parse.
ValidateParseFails ==
    /\ validator.pc = "start"
    /\ DecodeValues(validator.values).kind = "return"
    /\ Parse(validator.template_str).kind = "raise"
    /\ validator' = [validator EXCEPT
           !.pc = "done", !.outcome = Parse(validator.template_str)]
    /\ UNCHANGED <<invoker, fanout, judge, comparator>>

\* Lines 91-101: the variables are listed in some order and checked in it.
Validate ==
    /\ validator.pc = "start"
    /\ DecodeValues(validator.values).kind = "return"
    /\ Parse(validator.template_str).kind = "return"
    /\ \E template_vars \in ListsOf(GetTemplateVariables(Parse(validator.template_str).val)) :
          validator' = [validator EXCEPT
              !.pc = "done",
              !.template_vars = template_vars,
              !.outcome = Return(ValidateLoop(DecodeValues(validator.values).val,
                                              template_vars))]
    /\ UNCHANGED <<invoker, fanout, judge, comparator>>

InitValidator ==
    /\ ValidatorInit
    /\ invoker = Idle /\ fanout = Idle /\ judge = Idle /\ comparator = Idle

NextValidator == ValidateDecodeFails \/ ValidateParseFails \/ Validate

SpecValidator == InitValidator /\ [][NextValidator]_vars

\* The mapping the call is given (decoded when it comes as JSON text).
GivenMap ==
    IF validator.values.type = "str" THEN validator.values.body.fields
    ELSE validator.values.map

Satisfied(v) ==
    /\ v \in DOMAIN GivenMap
    /\ GivenMap[v] # Str(<<>>)
    /\ GivenMap[v] # None

\* C10: for a valid template and a values mapping the result is (True, "")
\* exactly when every variable get_template_variables extracts is a key of the
\* mapping with a value that is neither "" nor None; otherwise it is (False, v)
\* with v an extracted variable that is missing, empty or None.
C10_ValidIffAllPresent ==
    (/\ validator.pc = "done"
     /\ validator.template_str.valid
     /\ validator.values.type = "str" => validator.values.body.kind = "object")
    => LET extracted == GetTemplateVariables(validator.template_str.ast)
       IN /\ validator.outcome.kind = "return"
          /\ validator.outcome.val = <<TRUE, "">> <=> \A v \in extracted : Satisfied(v)
          /\ (\E v \in extracted : ~Satisfied(v)) =>
                /\ validator.outcome.val[1] = FALSE
                /\ validator.outcome.val[2] \in {v \in extracted : ~Satisfied(v)}

C10_Witness ==
    /\ validator.pc = "done"
    /\ validator.template_str.ast
          = Node("Template", <<Node("Output", <<Node("Add", <<NameNode("a"), NameNode("b")>>)>>)>>)
    /\ validator.values.type = "dict"
    /\ validator.values.map = [v \in {"a", "b"} |-> IF v = "a" THEN Str(<<"x">>) ELSE None]
    /\ validator.template_vars = <<"a", "b">>
    /\ validator.outcome = Return(<<FALSE, "b">>)

(***************************************************************************)
(* The whole module: any one of the calls.                                 *)
(***************************************************************************)
Init ==
    \/ InitInvoker
    \/ InitFanOut
    \/ InitJudge
    \/ InitComparator
    \/ InitValidator

Next ==
    \/ NextInvoker
    \/ NextFanOut
    \/ NextJudge
    \/ NextComparator
    \/ NextValidator

Spec == Init /\ [][Next]_vars

====
